---- MODULE Spec2Model ----
(***************************************************************************)
(* Model of the same-scope crawler of src/rawdata/main.py                  *)
(* (same_topic, crawl_single_site, the __main__ entry point) and of the    *)
(* URL prompt of src/crawl4ai/crawl_llama4.py (get_user_urls).             *)
(*                                                                         *)
(* A Python str is a finite sequence of lexemes.  A lexeme is a run of     *)
(* characters that no operation of the program ever cuts ("http", "docs",  *)
(* "ex.com") or a single delimiter character (":", "/", "?", "#", "[").    *)
(* "https" is <<"http", "s">> and "/docs2" is <<"/", "docs", "2">>, so     *)
(* str.startswith, str.split, str.rstrip and str.find act on a sequence of *)
(* lexemes exactly as they act on the characters.                          *)
(***************************************************************************)
EXTENDS Integers, Sequences, FiniteSets, TLC

----------------------------------------------------------------------------
(* str primitives                                                          *)

Take(s, n) == SubSeq(s, 1, IF n < Len(s) THEN n ELSE Len(s))

Drop(s, n) == SubSeq(s, n + 1, Len(s))

Has(s, c) == \E i \in 1..Len(s) : s[i] = c

\* s.find(c) + 1: the first position of c in s, 0 when c does not occur
Find(s, c) ==
  IF Has(s, c) THEN CHOOSE i \in 1..Len(s) : s[i] = c /\ \A j \in 1..(i-1) : s[j] # c
  ELSE 0

\* s.split(c)[0]
SplitHead(s, c) == IF Has(s, c) THEN Take(s, Find(s, c) - 1) ELSE s

\* s.split(c, 1)[1] when c occurs in s
SplitTail(s, c) == Drop(s, Find(s, c))

StartsWith(s, p) == Len(p) <= Len(s) /\ Take(s, Len(p)) = p

RECURSIVE RStrip(_, _)
RStrip(s, c) ==
  IF s # <<>> /\ s[Len(s)] = c THEN RStrip(Take(s, Len(s) - 1), c) ELSE s

RECURSIVE LStrip(_, _)
LStrip(s, c) ==
  IF s # <<>> /\ s[1] = c THEN LStrip(Drop(s, 1), c) ELSE s

\* str.strip() of the whitespace lexeme
Strip(s) == RStrip(LStrip(s, " "), " ")

\* s.split(c): the list of the pieces of s between the occurrences of c
RECURSIVE Split(_, _)
Split(s, c) ==
  IF Has(s, c) THEN <<SplitHead(s, c)>> \o Split(SplitTail(s, c), c) ELSE <<s>>

\* c.join(parts)
RECURSIVE Join(_, _)
Join(parts, c) ==
  IF parts = <<>> THEN <<>>
  ELSE IF Len(parts) = 1 THEN parts[1]
  ELSE parts[1] \o <<c>> \o Join(Drop(parts, 1), c)

\* str.lower(): the alphabet has one upper-case lexeme
Lower(s) == [i \in DOMAIN s |-> IF s[i] = "HTTP" THEN "http" ELSE s[i]]

----------------------------------------------------------------------------
(* urllib.parse as used by main.py (urlparse, urljoin)                     *)

\* lexemes made of scheme_chars only (letters, digits, "+", "-", ".")
SchemeChars ==
  {"http", "HTTP", "s", "ftp", "mailto", "ex.com", "other.com", "bin.org",
   "docs", "other", "a", "b", "f", "top", "frag", "2", ".", ".."}

\* lexemes whose first character is an ASCII letter
AlphaFirst == SchemeChars \ {"2", ".", ".."}

HTTP == <<"http">>

HTTPS == <<"http", "s">>

UsesRelative == {<<>>, <<"ftp">>, HTTP, HTTPS}

UsesNetloc == {<<>>, <<"ftp">>, HTTP, HTTPS}

\* the result of a call that raised ValueError("Invalid IPv6 URL")
ValueError == <<"!ValueError">>

\* the end of urlsplit: fragment and query are cut off the rest, and a netloc
\* with one bracket but not the other raises
SplitRest(scheme, netloc, rest) ==
  [scheme   |-> scheme,
   netloc   |-> netloc,
   path     |-> SplitHead(SplitHead(rest, "#"), "?"),
   query    |-> IF Has(SplitHead(rest, "#"), "?")
                THEN SplitTail(SplitHead(rest, "#"), "?") ELSE <<>>,
   fragment |-> IF Has(rest, "#") THEN SplitTail(rest, "#") ELSE <<>>,
   err      |-> Has(netloc, "[") # Has(netloc, "]")]

\* _splitnetloc(url, 2): the position of the first of "/", "?", "#" after
\* the two slashes, the length of url plus one when there is none
NetlocEnd(url) ==
  IF \E k \in 3..Len(url) : url[k] \in {"/", "?", "#"}
  THEN CHOOSE k \in 3..Len(url) :
         /\ url[k] \in {"/", "?", "#"}
         /\ \A j \in 3..(k-1) : url[j] \notin {"/", "?", "#"}
  ELSE Len(url) + 1

SplitNetloc(scheme, url) ==
  IF Take(url, 2) = <<"/", "/">>
  THEN SplitRest(scheme, SubSeq(url, 3, NetlocEnd(url) - 1),
                 SubSeq(url, NetlocEnd(url), Len(url)))
  ELSE SplitRest(scheme, <<>>, url)

\* url[:i] is a scheme: i > 0, url[0] is a letter, all of url[:i] are scheme_chars
IsScheme(url, i) ==
  /\ i > 1
  /\ url[1] \in AlphaFirst
  /\ \A k \in 1..(i-1) : url[k] \in SchemeChars

\* urlparse(url, scheme): the components, or err when urlsplit raises.
\* No lexeme holds ";", so params is always empty.
urlparse(url, scheme) ==
  IF IsScheme(url, Find(url, ":"))
  THEN SplitNetloc(Lower(Take(url, Find(url, ":") - 1)), Drop(url, Find(url, ":")))
  ELSE SplitNetloc(scheme, url)

\* urlunsplit, the part that puts "//" and the netloc in front of the path
WithNetloc(scheme, netloc, path) ==
  IF \/ netloc # <<>>
     \/ (scheme # <<>> /\ scheme \in UsesNetloc /\ Take(path, 2) # <<"/", "/">>)
  THEN <<"/", "/">> \o netloc
       \o (IF path # <<>> /\ path[1] # "/" THEN <<"/">> \o path ELSE path)
  ELSE path

urlunparse(scheme, netloc, path, query, fragment) ==
  (IF scheme # <<>> THEN scheme \o <<":">> ELSE <<>>)
    \o WithNetloc(scheme, netloc, path)
    \o (IF query # <<>> THEN <<"?">> \o query ELSE <<>>)
    \o (IF fragment # <<>> THEN <<"#">> \o fragment ELSE <<>>)

\* segments[1:-1] = filter(None, segments[1:-1])
FilterInner(segs) ==
  IF Len(segs) <= 2 THEN segs
  ELSE <<segs[1]>>
       \o SelectSeq(SubSeq(segs, 2, Len(segs) - 1), LAMBDA g : g # <<>>)
       \o <<segs[Len(segs)]>>

\* the loop of urljoin over the segments: ".." pops, "." is skipped
RECURSIVE Resolve(_, _)
Resolve(segs, acc) ==
  IF segs = <<>> THEN acc
  ELSE IF segs[1] = <<"..">>
       THEN Resolve(Drop(segs, 1), Take(acc, Len(acc) - 1))
  ELSE IF segs[1] = <<".">>
       THEN Resolve(Drop(segs, 1), acc)
  ELSE Resolve(Drop(segs, 1), Append(acc, segs[1]))

\* base_parts: bpath.split('/') without its last item unless that is empty
BaseParts(parts) ==
  IF parts[Len(parts)] # <<>> THEN Take(parts, Len(parts) - 1) ELSE parts

\* the segments urljoin resolves
Segments(bpath, path) ==
  IF path[1] = "/" THEN Split(path, "/")
  ELSE FilterInner(BaseParts(Split(bpath, "/")) \o Split(path, "/"))

\* resolved_path, with the trailing '' after a final "." or ".."
ResolvedPath(segs) ==
  IF segs[Len(segs)] \in {<<".">>, <<"..">>}
  THEN Append(Resolve(segs, <<>>), <<>>)
  ELSE Resolve(segs, <<>>)

\* '/'.join(resolved_path) or '/'
JoinedPath(resolved) ==
  IF Join(resolved, "/") = <<>> THEN <<"/">> ELSE Join(resolved, "/")

\* urljoin once base and url are parsed into b and u
JoinParsed(url, b, u) ==
  IF u.scheme # b.scheme \/ u.scheme \notin UsesRelative THEN url
  ELSE IF u.scheme \in UsesNetloc /\ u.netloc # <<>>
  THEN urlunparse(u.scheme, u.netloc, u.path, u.query, u.fragment)
  ELSE IF u.path = <<>>
  THEN urlunparse(u.scheme, IF u.scheme \in UsesNetloc THEN b.netloc ELSE u.netloc,
                  b.path, IF u.query = <<>> THEN b.query ELSE u.query, u.fragment)
  ELSE urlunparse(u.scheme, IF u.scheme \in UsesNetloc THEN b.netloc ELSE u.netloc,
                  JoinedPath(ResolvedPath(Segments(b.path, u.path))),
                  u.query, u.fragment)

JoinBase(url, b) ==
  IF b.err \/ urlparse(url, b.scheme).err THEN ValueError
  ELSE JoinParsed(url, b, urlparse(url, b.scheme))

urljoin(base, url) ==
  IF base = <<>> THEN url
  ELSE IF url = <<>> THEN base
  ELSE JoinBase(url, urlparse(base, <<>>))

----------------------------------------------------------------------------
(* src/rawdata/main.py: same_topic                                         *)

HttpSchemes == {HTTP, HTTPS}

\* same_topic(base_url, candidate) for arguments that urlparse accepts
InTopic(base, cand) ==
  IF cand.scheme \notin HttpSchemes THEN FALSE
  ELSE IF cand.netloc # base.netloc THEN FALSE
  ELSE StartsWith(RStrip(cand.path, "/"), RStrip(base.path, "/"))

same_topic(base_url, candidate) ==
  InTopic(urlparse(base_url, <<>>), urlparse(candidate, <<>>))

\* same_topic raises when one of its two urlparse calls raises
same_topic_raises(base_url, candidate) ==
  urlparse(base_url, <<>>).err \/ urlparse(candidate, <<>>).err

----------------------------------------------------------------------------
(* src/crawl4ai/crawl_llama4.py: the scheme default of get_user_urls        *)

\* url = input(...).strip(); if not url.startswith("http"): url = "https://" + url
get_user_url(typed) ==
  LET url == Strip(typed)
  IN  IF StartsWith(url, HTTP) THEN url ELSE HTTPS \o <<":", "/", "/">> \o url

----------------------------------------------------------------------------
(* src/rawdata/main.py: crawl_single_site, pure parts                      *)

Quotes == {"\"", "'"}

\* re.findall(r'href=["\'](.*?)["\']', html, flags=re.I): after "href=" in
\* either case and a quote, the shortest run without a newline up to the
\* next quote of either kind; the scan resumes after the closing quote.
RECURSIVE findall_href(_)
findall_href(html) ==
  IF Len(html) < 3 THEN <<>>
  ELSE IF html[1] \in {"href=", "HREF="} /\ html[2] \in Quotes
  THEN LET rest == Drop(html, 2)
           qs   == {k \in 1..Len(rest) : rest[k] \in Quotes}
           q    == IF qs = {} THEN 0 ELSE CHOOSE k \in qs : \A j \in qs : k <= j
       IN  IF q = 0 \/ Has(Take(rest, q), "\n")
           THEN findall_href(Drop(html, 1))
           ELSE <<Take(rest, q - 1)>> \o findall_href(Drop(rest, q))
  ELSE findall_href(Drop(html, 1))

\* absolute = urljoin(url, raw_link.split("#")[0]); absolute = absolute.split("?")[0]
StripQuery(absolute) ==
  IF absolute = ValueError THEN ValueError ELSE SplitHead(absolute, "?")

Normalize(url, raw_link) == StripQuery(urljoin(url, SplitHead(raw_link, "#")))

\* mutant: line 80 without "absolute not in seen"
ShouldAppend_NoSeen(absolute, sn, start) == same_topic(start, absolute)

\* the condition of line 80 for an absolute that same_topic can parse
ShouldAppend(absolute, sn, start) ==
  absolute \notin sn /\ same_topic(start, absolute)

\* lines 78-80 raise for this link: urljoin raised, or same_topic is called
\* (absolute is not in seen) and raises
LinkRaises(absolute, sn, start) ==
  \/ absolute = ValueError
  \/ (absolute \notin sn /\ same_topic_raises(start, absolute))

\* mutant: the link is put in front (to_visit.insert(0, absolute))
Enqueue_Front(q, absolute) == <<absolute>> \o q

\* line 81, to_visit.append(absolute)
Enqueue(q, absolute) == Append(q, absolute)

\* the for loop of lines 77-81: the frontier after the loop, whether the loop
\* was left by an exception (urljoin or same_topic raising ValueError), and,
\* as history, the URLs it put on the frontier in the order it did
RECURSIVE ExtractLoop(_, _, _, _, _, _)
ExtractLoop(links, url, start, sn, q, added) ==
  IF links = <<>> THEN [to_visit |-> q, raised |-> FALSE, added |-> added]
  ELSE IF LinkRaises(Normalize(url, links[1]), sn, start)
  THEN [to_visit |-> q, raised |-> TRUE, added |-> added]
  ELSE IF ShouldAppend(Normalize(url, links[1]), sn, start)
  THEN ExtractLoop(Drop(links, 1), url, start, sn,
                   Enqueue(q, Normalize(url, links[1])),
                   Append(added, Normalize(url, links[1])))
  ELSE ExtractLoop(Drop(links, 1), url, start, sn, q, added)

\* f"\n\n<!-- URL: {url} -->\n\n"
Delimiter(url) == <<"\n", "\n", "<!-- URL: ">> \o url \o <<" -->", "\n", "\n">>

\* mutant: the file is opened with "wb" for every page
WriteRecord_Truncating(file, url, html) == Delimiter(url) \o html

\* lines 71-73: the file is opened with "ab", the delimiter and the page are
\* written
WriteRecord(file, url, html) == file \o Delimiter(url) \o html

\* mutant: the head is read but not removed (to_visit[0] for to_visit.pop(0))
PopRest_Peek(q) == q

\* line 57, url = to_visit.pop(0): what is left of to_visit
PopRest(q) == Tail(q)

\* mutant: the check of line 58 is missing
Visited_Never(sn, url) == FALSE

\* line 58, url in seen
Visited(sn, url) == url \in sn

\* mutant: seen.add(url) is missing
MarkSeen_Forget(sn, url) == sn

\* line 60, seen.add(url)
MarkSeen(sn, url) == sn \cup {url}

----------------------------------------------------------------------------
(* The inputs: what the user types and what the web serves                 *)

\* number of page bodies of PageTable that the web can serve
NumPages == 4

\* number of stale records baka.txt can hold before the run
MaxOld == 1

Url(scheme, host, path) == scheme \o <<":", "/", "/", host>> \o path

DOCS == Url(HTTPS, "ex.com", <<"/", "docs">>)

\* what the user can type at the prompt: a plain seed, a seed with a query
\* and surrounding blanks, a seed with a fragment, a bare host with a path,
\* and blanks only
Inputs ==
  { DOCS,
    <<" ">> \o DOCS \o <<"?", "x=1", " ">>,
    DOCS \o <<"#", "f">>,
    <<"ex.com", "/", "docs">>,
    <<" ", " ">> }

Anchor(href) == <<"<a ", "href=", "\"">> \o href \o <<"\"", ">", "\n">>

\* page bodies.  1: the links /docs/a, /other, https://ex.com/docs/b?x=1#frag
\* and mailto:x@y.com.  2: an upper-case HREF in single quotes, a repeated
\* link, a link back to /docs, a same-page fragment and a src attribute.
\* 3: an href that urljoin rejects, then /docs/b.  4: no link.
\* 5: /docs2 and the relative link b.
PageTable ==
  << Anchor(<<"/", "docs", "/", "a">>)
       \o Anchor(<<"/", "other">>)
       \o Anchor(Url(HTTPS, "ex.com", <<"/", "docs", "/", "b", "?", "x=1", "#", "frag">>))
       \o Anchor(<<"mailto", ":", "x@y.com">>),
     <<"<a ", "HREF=", "'", "/", "docs", "/", "a", "'", ">", "\n">>
       \o Anchor(<<"/", "docs", "/", "a">>)
       \o Anchor(<<"/", "docs">>)
       \o Anchor(<<"#", "top">>)
       \o <<"<img ", "src=", "\"", "/", "docs", "/", "b", "\"", ">">>,
     Anchor(<<"http", ":", "/", "/", "[">>)
       \o Anchor(<<"/", "docs", "/", "b">>),
     <<"<p>", "docs", "</p>">>,
     Anchor(<<"/", "docs", "2">>)
       \o Anchor(<<"b">>) >>

Pages == {PageTable[i] : i \in 1..(IF NumPages < Len(PageTable) THEN NumPages ELSE Len(PageTable))}

OldRecord == <<"old", "\n">>

RECURSIVE Repeat(_, _)
Repeat(s, n) == IF n = 0 THEN <<>> ELSE s \o Repeat(s, n - 1)

OldFiles == {Repeat(OldRecord, n) : n \in 0..MaxOld}

----------------------------------------------------------------------------
(* State                                                                   *)

VARIABLES
  pc,         \* "Idle": at the prompt; "Running": in the while loop;
              \* "Done": crawl_single_site returned; "Exit": no URL supplied
  typed,      \* the line the user types at the prompt
  start_url,  \* the argument of crawl_single_site
  to_visit,   \* the list to_visit (the frontier)
  seen,       \* the set seen
  baka,       \* the content of baka.txt
  console,    \* the lines printed
  fetched,    \* history: the calls of crawler.arun, in order, with their results
              \* and with what was left on to_visit when they were made
  appended,   \* history: every URL put on to_visit, in order, the seed first
  truncs,     \* history: how often baka.txt was truncated
  t_seed,     \* same_topic called on its own: the argument base_url
  t_cand,     \* same_topic called on its own: the argument candidate
  t_out,      \* same_topic called on its own: "none" before the call, then
              \* what it returned
  g_pc,       \* crawl_llama4.main: "Off", "Prompt", "Crawling", "Gathered", "Saved"
  g_typed,    \* crawl_llama4: the lines typed at the URL prompts
  g_urls,     \* crawl_llama4: the list urls
  g_ret,      \* crawl_llama4: per task of crawl_all, "none" or what crawl_url
              \* returned and how the fetch went
  g_order,    \* history: the indices of the tasks in the order they completed
  g_results,  \* crawl_llama4: the list returned by crawl_all
  g_file      \* the content of main.txt

crawlvars == <<pc, typed, start_url, to_visit, seen, baka, console, fetched, appended, truncs>>

topicvars == <<t_seed, t_cand, t_out>>

gathervars == <<g_pc, g_typed, g_urls, g_ret, g_order, g_results, g_file>>

vars == <<crawlvars, topicvars, gathervars>>

\* crawl_single_site is not running
CrawlOff ==
  /\ pc = "Exit"
  /\ typed = <<>>
  /\ start_url = <<>>
  /\ to_visit = <<>>
  /\ seen = {}
  /\ baka = <<>>
  /\ console = <<>>
  /\ fetched = <<>>
  /\ appended = <<>>
  /\ truncs = 0

\* same_topic is not called on its own
TopicOff == t_seed = <<>> /\ t_cand = <<>> /\ t_out = "none"

\* crawl_llama4.main is not running
GatherOff ==
  /\ g_pc = "Off"
  /\ g_typed = <<>>
  /\ g_urls = <<>>
  /\ g_ret = <<>>
  /\ g_order = <<>>
  /\ g_results = <<>>
  /\ g_file = <<>>

Init ==
  /\ pc = "Idle"
  /\ typed \in Inputs
  /\ start_url = <<>>
  /\ to_visit = <<>>
  /\ seen = {}
  /\ baka \in OldFiles
  /\ console = <<>>
  /\ fetched = <<>>
  /\ appended = <<>>
  /\ truncs = 0
  /\ TopicOff
  /\ GatherOff

----------------------------------------------------------------------------
(* src/rawdata/main.py: the entry point and crawl_single_site              *)

\* lines 91-93: nothing but blanks was typed
MainNoUrl ==
  /\ pc = "Idle"
  /\ Strip(typed) = <<>>
  /\ pc' = "Exit"
  /\ console' = Append(console, [tag |-> "No URL supplied", url |-> <<>>])
  /\ UNCHANGED <<typed, start_url, to_visit, seen, baka, fetched, appended, truncs>>
  /\ UNCHANGED <<topicvars, gathervars>>

\* lines 94-95 and 48-53: the crawl starts on the stripped input as it is
MainCrawl ==
  /\ pc = "Idle"
  /\ Strip(typed) # <<>>
  /\ start_url' = Strip(typed)
  /\ seen' = {}
  /\ to_visit' = <<Strip(typed)>>
  /\ appended' = <<Strip(typed)>>
  /\ baka' = <<>>
  /\ truncs' = truncs + 1
  /\ pc' = "Running"
  /\ UNCHANGED <<typed, console, fetched>>
  /\ UNCHANGED <<topicvars, gathervars>>

\* lines 57-59: the popped URL is in seen already
IterSeen ==
  /\ pc = "Running"
  /\ to_visit # <<>>
  /\ Visited(seen, Head(to_visit))
  /\ to_visit' = PopRest(to_visit)
  /\ UNCHANGED <<pc, typed, start_url, seen, baka, console, fetched, appended, truncs>>
  /\ UNCHANGED <<topicvars, gathervars>>

\* mutant: the page is saved before result.success is looked at
IterSkip_Saves ==
  /\ pc = "Running"
  /\ to_visit # <<>>
  /\ ~Visited(seen, Head(to_visit))
  /\ LET url == Head(to_visit) IN
       /\ to_visit' = PopRest(to_visit)
       /\ seen' = MarkSeen(seen, url)
       /\ fetched' = Append(fetched, [url |-> url, result |-> "failed", html |-> <<>>,
                                   pending |-> PopRest(to_visit)])
       /\ console' = Append(console, [tag |-> "SKIP", url |-> url])
  /\ baka' = WriteRecord(baka, Head(to_visit), <<>>)
  /\ UNCHANGED <<pc, typed, start_url, appended, truncs>>
  /\ UNCHANGED <<topicvars, gathervars>>

\* lines 57-66: result.success is false
IterSkip ==
  /\ pc = "Running"
  /\ to_visit # <<>>
  /\ ~Visited(seen, Head(to_visit))
  /\ LET url == Head(to_visit) IN
       /\ to_visit' = PopRest(to_visit)
       /\ seen' = MarkSeen(seen, url)
       /\ fetched' = Append(fetched, [url |-> url, result |-> "failed", html |-> <<>>,
                                   pending |-> PopRest(to_visit)])
       /\ console' = Append(console, [tag |-> "SKIP", url |-> url])
  /\ UNCHANGED <<pc, typed, start_url, baka, appended, truncs>>
  /\ UNCHANGED <<topicvars, gathervars>>

\* lines 57-63 and 83-84: crawler.arun raises
IterRaise ==
  /\ pc = "Running"
  /\ to_visit # <<>>
  /\ ~Visited(seen, Head(to_visit))
  /\ LET url == Head(to_visit) IN
       /\ to_visit' = PopRest(to_visit)
       /\ seen' = MarkSeen(seen, url)
       /\ fetched' = Append(fetched, [url |-> url, result |-> "raised", html |-> <<>>,
                                   pending |-> PopRest(to_visit)])
       /\ console' = Append(console, [tag |-> "ERROR", url |-> url])
  /\ UNCHANGED <<pc, typed, start_url, baka, appended, truncs>>
  /\ UNCHANGED <<topicvars, gathervars>>

\* lines 57-73 and 83-84: the fetch succeeds and saving the page raises,
\* in open() with nothing written or after the delimiter was written
IterSaveRaises ==
  /\ pc = "Running"
  /\ to_visit # <<>>
  /\ ~Visited(seen, Head(to_visit))
  /\ \E html \in Pages, written \in BOOLEAN :
       LET url == Head(to_visit) IN
       /\ to_visit' = PopRest(to_visit)
       /\ seen' = MarkSeen(seen, url)
       /\ fetched' = Append(fetched, [url |-> url, result |-> "success", html |-> html,
                                   pending |-> PopRest(to_visit)])
       /\ baka' = IF written THEN baka \o Delimiter(url) ELSE baka
       /\ console' = console \o <<[tag |-> "OK", url |-> url], [tag |-> "ERROR", url |-> url]>>
  /\ UNCHANGED <<pc, typed, start_url, appended, truncs>>
  /\ UNCHANGED <<topicvars, gathervars>>

\* lines 57-84: the fetch succeeds, the page is saved and its links are
\* looked at in document order until the list ends or one of them raises
IterOk ==
  /\ pc = "Running"
  /\ to_visit # <<>>
  /\ ~Visited(seen, Head(to_visit))
  /\ \E html \in Pages :
       LET url  == Head(to_visit)
           sn   == MarkSeen(seen, url)
           loop == ExtractLoop(findall_href(html), url, start_url, sn, PopRest(to_visit), <<>>)
       IN
       /\ seen' = sn
       /\ fetched' = Append(fetched, [url |-> url, result |-> "success", html |-> html,
                                   pending |-> PopRest(to_visit)])
       /\ baka' = WriteRecord(baka, url, html)
       /\ to_visit' = loop.to_visit
       /\ appended' = appended \o loop.added
       /\ console' = console \o <<[tag |-> "OK", url |-> url]>>
                       \o (IF loop.raised THEN <<[tag |-> "ERROR", url |-> url]>> ELSE <<>>)
  /\ UNCHANGED <<pc, typed, start_url, truncs>>
  /\ UNCHANGED <<topicvars, gathervars>>

\* line 56: to_visit is empty, the loop and crawl_single_site end
Finish ==
  /\ pc = "Running"
  /\ to_visit = <<>>
  /\ pc' = "Done"
  /\ UNCHANGED <<typed, start_url, to_visit, seen, baka, console, fetched, appended, truncs>>
  /\ UNCHANGED <<topicvars, gathervars>>

Next ==
  \/ MainNoUrl
  \/ MainCrawl
  \/ IterSeen
  \/ IterSkip
  \/ IterRaise
  \/ IterSaveRaises
  \/ IterOk
  \/ Finish

Spec == Init /\ [][Next]_vars

\* the loop is sequential code: it takes its next step as long as it has one
LiveSpec == Spec /\ WF_vars(Next)

----------------------------------------------------------------------------
(* Vocabulary of the properties                                            *)

FetchedUrls == {fetched[i].url : i \in 1..Len(fetched)}

AppendedUrls == {appended[i] : i \in 1..Len(appended)}

Crawling == pc \in {"Running", "Done"}

\* a URL with its fragment and its query cut off
Stripped(url) == SplitHead(SplitHead(url, "#"), "?")

\* how often url occurs in the sequence q
Count(q, url) == Cardinality({i \in 1..Len(q) : q[i] = url})

\* s holds sub as a contiguous part
Occurs(sub, s) ==
  \E k \in 0..(Len(s) - Len(sub)) : SubSeq(s, k + 1, k + Len(sub)) = sub

\* the links of the i-th fetched page, normalized against that page's URL
LinksOf(i) ==
  {Normalize(fetched[i].url, l) :
     l \in {findall_href(fetched[i].html)[k] : k \in 1..Len(findall_href(fetched[i].html))}}

\* the records of the successful fetches of f, in the order of the fetches
RECURSIVE Records(_)
Records(f) ==
  IF f = <<>> THEN <<>>
  ELSE (IF f[1].result = "success" THEN Delimiter(f[1].url) \o f[1].html ELSE <<>>)
       \o Records(Tail(f))

----------------------------------------------------------------------------
(* C1  At-most-once fetch after normalization: no two calls of the fetcher *)
(* get URLs that are equal once fragment and query are stripped, the seed  *)
(* included.                                                               *)
C1_OncePerNormalizedUrl ==
  \A i, j \in 1..Len(fetched) :
    i < j => Stripped(fetched[i].url) # Stripped(fetched[j].url)

(* C2  Scope closure: every URL that is or was on the frontier (the seed   *)
(* included) and every URL passed to the fetcher satisfies                 *)
(* same_topic(seed, url).                                                  *)
C2_ScopeClosure ==
  Crawling => \A u \in AppendedUrls \cup FetchedUrls : same_topic(start_url, u)

(* C3  Termination: a running crawl reaches Done with an empty frontier,   *)
(* whatever the outcome of each fetch.                                     *)
C3_Terminates == (pc = "Running") ~> (pc = "Done" /\ to_visit = <<>>)

\* a finished crawl whose fetches succeeded, failed and raised
C3_Witness ==
  /\ pc = "Done"
  /\ to_visit = <<>>
  /\ \A r \in {"success", "failed", "raised"} :
       \E i \in 1..Len(fetched) : fetched[i].result = r

(* C4  Output completeness: when the crawl is Done, baka.txt is exactly    *)
(* the records of the successfully fetched URLs in fetch order, each the   *)
(* delimiter followed by the page content verbatim.                        *)
C4_OutputComplete == pc = "Done" => baka = Records(fetched)

(* C5  Crawl completeness: when the crawl is Done, every in-scope URL that *)
(* a successfully fetched page links to was passed to the fetcher (so      *)
(* every in-scope URL reachable from the seed through successfully fetched *)
(* pages was).                                                             *)
C5_CrawlComplete ==
  pc = "Done" =>
    \A i \in 1..Len(fetched) :
      fetched[i].result = "success" =>
        \A u \in LinksOf(i) \ {ValueError} :
          same_topic(start_url, u) => u \in FetchedUrls

(* C6  A page failure does not stop the crawl: when the crawl is Done,     *)
(* every URL that was pending when a fetch failed or raised has been       *)
(* passed to the fetcher, and its record is in baka.txt if its fetch       *)
(* succeeded.                                                              *)
C6_FailureDoesNotStop ==
  pc = "Done" =>
    \A i \in 1..Len(fetched) :
      fetched[i].result \in {"failed", "raised"} =>
        \A k \in 1..Len(fetched[i].pending) :
          \E j \in 1..Len(fetched) :
            /\ fetched[j].url = fetched[i].pending[k]
            /\ fetched[j].result = "success" =>
                 Occurs(Delimiter(fetched[j].url) \o fetched[j].html, baka)

(* C7  A URL is added to seen when it is enqueued: every URL on the        *)
(* frontier is in seen, no URL occurs twice on the frontier, and no URL is *)
(* enqueued twice.                                                         *)
C7_SeenWhenEnqueued ==
  /\ \A k \in 1..Len(to_visit) : to_visit[k] \in seen
  /\ \A k \in 1..Len(to_visit) : Count(to_visit, to_visit[k]) = 1
  /\ \A k \in 1..Len(appended) : Count(appended, appended[k]) = 1

(* C7 as amended: a URL is added to seen when it is dequeued for its       *)
(* fetch.  seen is the set of the URLs passed to the fetcher, every URL    *)
(* ever enqueued is in seen or still on the frontier, and a URL that is on *)
(* the frontier is not yet in seen unless it was enqueued more than once.  *)
C7_SeenWhenDequeued ==
  /\ seen = FetchedUrls
  /\ \A u \in AppendedUrls : u \in seen \/ Has(to_visit, u)
  /\ \A k \in 1..Len(to_visit) :
       to_visit[k] \in seen => Count(appended, to_visit[k]) > 1

\* a URL is on the frontier twice and not in seen
C7_Witness ==
  \E k \in 1..Len(to_visit) :
    Count(to_visit, to_visit[k]) = 2 /\ to_visit[k] \notin seen

(* C8  No retry: the same URL string is never passed to the fetcher twice  *)
(* in one run, also not after a fetch that failed or raised.               *)
C8_NoUrlFetchedTwice ==
  \A i, j \in 1..Len(fetched) : i < j => fetched[i].url # fetched[j].url

\* a fetch failed or raised and a page fetched later links to its URL
C8_Witness ==
  \E i, j \in 1..Len(fetched) :
    /\ i < j
    /\ fetched[i].result \in {"failed", "raised"}
    /\ fetched[j].result = "success"
    /\ fetched[i].url \in LinksOf(j)

(* C9  A link whose normalized form is the seed URL does not put the seed  *)
(* on the frontier again and does not make the seed be fetched again.      *)
C9_SeedNotReenqueued ==
  Crawling => Count(appended, start_url) = 1
              /\ Cardinality({i \in 1..Len(fetched) : fetched[i].url = start_url}) <= 1

\* a successfully fetched page links to the seed
C9_Witness ==
  /\ Crawling
  /\ \E i \in 1..Len(fetched) :
       fetched[i].result = "success" /\ start_url \in LinksOf(i)

(* C10  A seed typed without a scheme gets "https://" in front before the  *)
(* crawl starts, so the scope reference and the first URL fetched have the *)
(* scheme http or https.                                                   *)
C10_SeedSchemeDefault ==
  Crawling =>
    /\ urlparse(Strip(typed), <<>>).scheme = <<>>
         => start_url = HTTPS \o <<":", "/", "/">> \o Strip(typed)
    /\ urlparse(start_url, <<>>).scheme \in HttpSchemes
    /\ fetched # <<>> => urlparse(fetched[1].url, <<>>).scheme \in HttpSchemes

\* the hrefs of the i-th fetched page, as findall finds them
RawLinksOf(i) ==
  {findall_href(fetched[i].html)[k] : k \in 1..Len(findall_href(fetched[i].html))}

\* the record of the i-th fetch is in baka.txt
Saved(i) == Occurs(Delimiter(fetched[i].url) \o fetched[i].html, baka)

(* C11  A write failure is fatal: once the record of a successfully        *)
(* fetched page could not be written, no further URL is dequeued and       *)
(* fetched.                                                                *)
C11_WriteFailureIsFatal ==
  \A i \in 1..Len(fetched) :
    (fetched[i].result = "success" /\ ~Saved(i)) => i = Len(fetched)

(* C12  Normalization is idempotent: for the URL of every fetched page as  *)
(* base and every href x of that page that urljoin accepts,                *)
(* normalize(base, normalize(base, x)) = normalize(base, x).               *)
C12_NormalizeIdempotent ==
  \A i \in 1..Len(fetched) :
    \A x \in RawLinksOf(i) :
      Normalize(fetched[i].url, x) # ValueError =>
        Normalize(fetched[i].url, Normalize(fetched[i].url, x))
          = Normalize(fetched[i].url, x)

\* the links of a page that the claim of C13 expects on the frontier: those
\* whose normalized form is in scope of the seed and not in sn, in document
\* order
RECURSIVE ExpectedAdditions(_, _, _, _)
ExpectedAdditions(links, url, start, sn) ==
  IF links = <<>> THEN <<>>
  ELSE (IF /\ Normalize(url, links[1]) # ValueError
           /\ Normalize(url, links[1]) \notin sn
           /\ same_topic(start, Normalize(url, links[1]))
        THEN <<Normalize(url, links[1])>> ELSE <<>>)
       \o ExpectedAdditions(Tail(links), url, start, sn)

\* this step is a fetch that returned success
FetchSucceeds ==
  /\ Len(fetched') = Len(fetched) + 1
  /\ fetched'[Len(fetched')].result = "success"

(* C13  After a successful fetch of page p the URLs appended to the        *)
(* frontier are exactly the links of p that, resolved against p's URL and  *)
(* stripped of fragment and query, are in scope of the seed and not        *)
(* visited, in document order; for the seed https://ex.com/docs and the    *)
(* links /docs/a, /other, https://ex.com/docs/b?x=1#frag, mailto:x@y.com   *)
(* these are https://ex.com/docs/a and https://ex.com/docs/b.              *)
C13_FrontierAdditions ==
  [][FetchSucceeds =>
       /\ to_visit' = Tail(to_visit)
            \o ExpectedAdditions(findall_href(fetched'[Len(fetched')].html),
                                 Head(to_visit), start_url, seen')
       /\ (Head(to_visit) = DOCS /\ start_url = DOCS
           /\ fetched'[Len(fetched')].html = PageTable[1])
            => to_visit' = <<DOCS \o <<"/", "a">>, DOCS \o <<"/", "b">>>>
     ]_vars

----------------------------------------------------------------------------
(* same_topic called on its own                                            *)

\* seeds: /docs, the site root with and without a slash, /docs/, /docs/a,
\* /docs over http, and /docs on another host
TopicSeeds ==
  { DOCS,
    Url(HTTPS, "ex.com", <<>>),
    Url(HTTPS, "ex.com", <<"/">>),
    DOCS \o <<"/">>,
    DOCS \o <<"/", "a">>,
    Url(HTTP, "ex.com", <<"/", "docs">>),
    Url(HTTPS, "other.com", <<"/", "docs">>) }

\* candidates: the results of line 79 for the links of a page
TopicCands ==
  { DOCS,
    DOCS \o <<"/">>,
    DOCS \o <<"/", "a">>,
    DOCS \o <<"/", "a", "/", "b">>,
    DOCS \o <<"2">>,
    Url(HTTPS, "ex.com", <<"/", "docs", "2", "/", "a">>),
    Url(HTTPS, "ex.com", <<"/", "other">>),
    Url(HTTPS, "ex.com", <<>>),
    Url(HTTPS, "ex.com", <<"/">>),
    Url(HTTP, "ex.com", <<"/", "docs", "/", "a">>),
    Url(<<"HTTP", "s">>, "ex.com", <<"/", "docs", "/", "b">>),
    Url(<<"ftp">>, "ex.com", <<"/", "docs">>),
    Url(HTTPS, "other.com", <<"/", "docs">>),
    <<"mailto", ":", "x@y.com">>,
    <<"/", "docs", "/", "a">> }

TopicInit ==
  /\ CrawlOff
  /\ GatherOff
  /\ t_seed \in TopicSeeds
  /\ t_cand \in TopicCands
  /\ t_out = "none"

\* main.py lines 21-41: one call same_topic(t_seed, t_cand)
TopicCall ==
  /\ t_out = "none"
  /\ ~same_topic_raises(t_seed, t_cand)
  /\ t_out' = IF same_topic(t_seed, t_cand) THEN "True" ELSE "False"
  /\ UNCHANGED <<t_seed, t_cand, crawlvars, gathervars>>

TopicNext == TopicCall

TopicSpec == TopicInit /\ [][TopicNext]_vars

\* the path of a URL without its trailing slashes
BarePath(url) == RStrip(urlparse(url, <<>>).path, "/")

(* C14  same_topic accepts a candidate only if its path, trailing slashes  *)
(* removed, is the seed's path or the seed's path followed by "/" and      *)
(* further segments; a seed with an empty path accepts every path on its   *)
(* host.                                                                   *)
C14_PathIsDescendant ==
  /\ t_out = "True" =>
       \/ BarePath(t_cand) = BarePath(t_seed)
       \/ StartsWith(BarePath(t_cand), BarePath(t_seed) \o <<"/">>)
  /\ (/\ t_out # "none"
      /\ BarePath(t_seed) = <<>>
      /\ urlparse(t_cand, <<>>).scheme \in HttpSchemes
      /\ urlparse(t_cand, <<>>).netloc = urlparse(t_seed, <<>>).netloc)
       => t_out = "True"

(* C15  same_topic returns true only if the candidate has the scheme and   *)
(* the netloc of the seed and that scheme is http or https.                *)
C15_SameSchemeAndHost ==
  t_out = "True" =>
    /\ urlparse(t_cand, <<>>).scheme = urlparse(t_seed, <<>>).scheme
    /\ urlparse(t_cand, <<>>).netloc = urlparse(t_seed, <<>>).netloc
    /\ urlparse(t_cand, <<>>).scheme \in HttpSchemes


\* the index at which url was first appended to the frontier
FirstAppended(url) ==
  CHOOSE i \in 1..Len(appended) : appended[i] = url /\ \A j \in 1..(i - 1) : appended[j] # url

\* C16: the frontier is first in, first out: the URLs are fetched in the order
\* in which they were first appended to the frontier, and a URL that waits
\* for its fetch was first appended after every URL fetched so far
C16_FifoOrder ==
  /\ \A i, j \in 1..Len(fetched) :
       i < j => FirstAppended(fetched[i].url) < FirstAppended(fetched[j].url)
  /\ \A u \in AppendedUrls \ FetchedUrls : \A i \in 1..Len(fetched) :
       FirstAppended(fetched[i].url) < FirstAppended(u)

\* three URLs were fetched, two of them found on the first page, and a URL
\* found later still waits
C16_Witness ==
  /\ Len(fetched) >= 3
  /\ fetched[2].url \in LinksOf(1)
  /\ fetched[3].url \in LinksOf(1)
  /\ AppendedUrls \ FetchedUrls # {}

\* a step in which the fetch of the dequeued URL returns success = False
FetchFails ==
  Len(fetched') = Len(fetched) + 1 /\ fetched'[Len(fetched')].result = "failed"

\* C17: an iteration whose fetch returns success = False removes the dequeued
\* URL from the frontier and marks it visited, and nothing else: the output
\* file keeps its content and no URL is appended to the frontier
C17_FailedFetchFrame ==
  [][FetchFails =>
       /\ baka' = baka
       /\ to_visit' = Tail(to_visit)
       /\ appended' = appended
       /\ seen' = seen \cup {Head(to_visit)}
       /\ fetched'[Len(fetched')].url = Head(to_visit)
       /\ UNCHANGED <<pc, start_url, truncs>>]_vars

\* a fetch failed while the output file held a page and URLs were waiting
C17_Witness ==
  \E i \in 1..Len(fetched) :
    /\ fetched[i].result = "failed"
    /\ fetched[i].pending # <<>>
    /\ i > 1
    /\ baka # <<>>

\* C18: the output file is emptied once per crawl, before the first fetch, and
\* only appended to afterwards: in every later step the old content is a
\* prefix of the new content
C18_TruncateOnceThenAppend ==
  /\ [](Crawling => truncs = 1)
  /\ [](fetched # <<>> => truncs = 1)
  /\ [][truncs' # truncs => (baka' = <<>> /\ fetched = <<>> /\ truncs' = truncs + 1)]_vars
  /\ [][Crawling => StartsWith(baka', baka)]_vars

\* two pages were written one after the other into the emptied file
C18_Witness ==
  /\ truncs = 1
  /\ \E i, j \in 1..Len(fetched) :
       /\ i < j
       /\ fetched[i].html # <<>>
       /\ baka = Delimiter(fetched[i].url) \o fetched[i].html
                   \o Delimiter(fetched[j].url) \o fetched[j].html

\* the links of a page without the malformed ones
WellFormed(links, url) ==
  SelectSeq(links, LAMBDA raw : Normalize(url, raw) # ValueError)

\* a step in which a page with a malformed href is fetched and saved
SavesMalformedPage ==
  /\ FetchSucceeds
  /\ baka' = baka \o Delimiter(Head(to_visit)) \o fetched'[Len(fetched')].html
  /\ WellFormed(findall_href(fetched'[Len(fetched')].html), Head(to_visit))
       # findall_href(fetched'[Len(fetched')].html)

\* C19: a malformed href on a fetched page is dropped silently: it is not put
\* on the frontier, nothing is printed for it, and the other links of the page
\* are put on the frontier as if the malformed one were not there
C19_MalformedLinkDropped ==
  [][SavesMalformedPage =>
       /\ to_visit' = Tail(to_visit)
            \o ExpectedAdditions(WellFormed(findall_href(fetched'[Len(fetched')].html),
                                            Head(to_visit)),
                                 Head(to_visit), start_url, seen')
       /\ console' = Append(console, [tag |-> "OK", url |-> Head(to_visit)])]_vars


-----------------------------------------------------------------------------
(* src/crawl4ai/crawl_llama4.py: get_user_urls, crawl_url, crawl_all,      *)
(* save_to_file                                                            *)

\* the largest page count typed at the first prompt of get_user_urls
MaxUrls == 3

\* the lines typed at the URL prompts
TypedUrls == {<<" ">> \o DOCS \o <<" ">>, <<"ex.com", "/", "a">>}

\* how a fetch of crawl_url can go
Outcomes == {"ok", "fallback", "failed", "raised"}

\* the list urls built by lines 36-42
get_user_urls(lines) == [i \in 1..Len(lines) |-> get_user_url(lines[i])]

\* what the crawler and the LLM extraction hand back for a URL
Content(url) == <<" ", "answer of ">> \o url \o <<" ">>

Markdown(url) == <<"# ">> \o url \o <<" ">>

ErrorMessage == <<"net::ERR_TIMED_OUT">>

ExceptionText == <<"Connection refused">>

\* lines 57-94: the string crawl_url returns for each way the fetch can go
crawl_url(url, outcome) ==
  IF outcome = "failed" THEN <<"[ERROR] ">> \o url \o <<" -> ">> \o ErrorMessage
  ELSE IF outcome = "raised" THEN <<"[ERROR] ">> \o url \o <<" -> ">> \o ExceptionText
  ELSE IF outcome = "fallback" THEN Strip(Markdown(url))
  ELSE Strip(Content(url))

\* mutant: the results in the order the tasks complete (asyncio.as_completed)
gather_AsCompleted(ret, order) == [k \in 1..Len(order) |-> ret[order[k]].value]

\* line 103, asyncio.gather(*tasks): the results in the order of the tasks
gather(ret, order) == [i \in 1..Len(ret) |-> ret[i].value]

\* str(idx) in the f-string of line 112
RECURSIVE Str(_)
Str(n) ==
  IF n < 10 THEN <<<<"0", "1", "2", "3", "4", "5", "6", "7", "8", "9">>[n + 1]>>
  ELSE Str(n \div 10) \o Str(n % 10)

\* lines 112-113 for one result
ResultBlock(idx, line) ==
  <<"=== Result #">> \o Str(idx) \o <<" ===", "\n">> \o line \o <<"\n", "\n">>

\* lines 110-113: enumerate(results, 1), the loop from idx on
RECURSIVE WriteFrom(_, _)
WriteFrom(results, idx) ==
  IF idx > Len(results) THEN <<>>
  ELSE ResultBlock(idx, results[idx]) \o WriteFrom(results, idx + 1)

save_to_file(results) == WriteFrom(results, 1)

\* the tasks of crawl_all that have returned
Completed == {g_order[k] : k \in 1..Len(g_order)}

GatherInit ==
  /\ CrawlOff
  /\ TopicOff
  /\ g_pc = "Prompt"
  /\ g_typed \in UNION {[1..n -> TypedUrls] : n \in 1..MaxUrls}
  /\ g_urls = <<>>
  /\ g_ret = <<>>
  /\ g_order = <<>>
  /\ g_results = <<>>
  /\ g_file = <<>>

\* lines 121 and 101-102: the URLs are read and one crawl_url task per URL is made
GetUserUrls ==
  /\ g_pc = "Prompt"
  /\ g_urls' = get_user_urls(g_typed)
  /\ g_ret' = [i \in 1..Len(g_typed) |-> [outcome |-> "none", value |-> <<>>]]
  /\ g_pc' = "Crawling"
  /\ UNCHANGED <<g_typed, g_order, g_results, g_file, crawlvars, topicvars>>

\* task i of crawl_all returns, its fetch having gone as outcome says
TaskReturns(i, outcome) ==
  /\ g_pc = "Crawling"
  /\ i \notin Completed
  /\ g_ret' = [g_ret EXCEPT ![i] = [outcome |-> outcome,
                                    value |-> crawl_url(g_urls[i], outcome)]]
  /\ g_order' = Append(g_order, i)
  /\ UNCHANGED <<g_pc, g_typed, g_urls, g_results, g_file, crawlvars, topicvars>>

\* lines 85-86: the LLM answer parses
TaskOk == \E i \in 1..Len(g_urls) : TaskReturns(i, "ok")

\* lines 87-90: the LLM answer does not parse
TaskFallback == \E i \in 1..Len(g_urls) : TaskReturns(i, "fallback")

\* lines 79-81: result.success is false
TaskFailed == \E i \in 1..Len(g_urls) : TaskReturns(i, "failed")

\* lines 92-94: crawler.arun raises
TaskRaised == \E i \in 1..Len(g_urls) : TaskReturns(i, "raised")

\* line 103: every task has returned and gather returns the list
GatherReturns ==
  /\ g_pc = "Crawling"
  /\ Completed = 1..Len(g_urls)
  /\ g_results' = gather(g_ret, g_order)
  /\ g_pc' = "Gathered"
  /\ UNCHANGED <<g_typed, g_urls, g_ret, g_order, g_file, crawlvars, topicvars>>

\* line 124
SaveToFile ==
  /\ g_pc = "Gathered"
  /\ g_file' = save_to_file(g_results)
  /\ g_pc' = "Saved"
  /\ UNCHANGED <<g_typed, g_urls, g_ret, g_order, g_results, crawlvars, topicvars>>

GatherNext ==
  \/ GetUserUrls
  \/ TaskOk
  \/ TaskFallback
  \/ TaskFailed
  \/ TaskRaised
  \/ GatherReturns
  \/ SaveToFile

GatherSpec == GatherInit /\ [][GatherNext]_vars

\* the result of task i is an error line
IsErrorLine(i) ==
  StartsWith(g_results[i], <<"[ERROR] ">> \o get_user_url(g_typed[i]) \o <<" -> ">>)

\* C20: crawl_all returns one result per URL, the i-th for the i-th URL, in
\* whatever order the tasks complete and whichever of them fail or raise: a
\* failed or raising task gives an [ERROR] line with its URL at its own
\* index, and save_to_file writes the i-th result under the number i
C20_ResultsByInputIndex ==
  /\ g_pc \in {"Gathered", "Saved"} =>
       /\ Len(g_results) = Len(g_typed)
       /\ \A i \in 1..Len(g_typed) :
            /\ g_ret[i].outcome \in Outcomes
            /\ g_results[i] = g_ret[i].value
            /\ Occurs(get_user_url(g_typed[i]), g_results[i])
            /\ g_ret[i].outcome \in {"failed", "raised"} <=> IsErrorLine(i)
            /\ g_ret[i].outcome = "ok" => g_results[i] = <<"answer of ">> \o g_urls[i]
            /\ g_ret[i].outcome = "fallback" => g_results[i] = <<"# ">> \o g_urls[i]
  /\ g_pc = "Saved" =>
       /\ Count(g_file, "=== Result #") = Len(g_typed)
       /\ \A i \in 1..Len(g_typed) :
            Occurs(<<"=== Result #">> \o Str(i) \o <<" ===", "\n">>
                     \o g_results[i] \o <<"\n", "\n">>, g_file)

\* three different outcomes, the last task returned first, a failure among
\* them, and the file is written
C20_Witness ==
  /\ g_pc = "Saved"
  /\ Len(g_urls) = 3
  /\ g_urls[1] # g_urls[3]
  /\ g_order[1] = 3
  /\ g_ret[1].outcome = "ok"
  /\ g_ret[2].outcome = "raised"
  /\ g_ret[3].outcome = "failed"

====
